---- MODULE Spec2Model ----
(***************************************************************************)
(* Model of utils/data_preparation.py (ECG5000 download, partition, save). *)
(*                                                                         *)
(* The percentages are Python floats, and the sizes of the partitions are  *)
(* decided by ceil() of products of such floats, so the arithmetic is      *)
(* modelled as IEEE-754 binary64 with round-to-nearest-even.  TLC integers *)
(* are 32 bits wide, so mantissas are kept as little-endian sequences of   *)
(* limbs in base 2^15.                                                     *)
(***************************************************************************)
EXTENDS Integers, Sequences, FiniteSets, TLC

(***************************************************************************)
(* Natural numbers of arbitrary size: <<>> is zero, no leading zero limb.  *)
(***************************************************************************)
Base == 2^15

RECURSIVE BigNorm(_)
BigNorm(a) ==
    IF a = <<>> THEN <<>>
    ELSE IF a[Len(a)] = 0 THEN BigNorm(SubSeq(a, 1, Len(a) - 1))
    ELSE a

\* n < Base^3
BigOfInt(n) ==
    BigNorm(<<n % Base, (n \div Base) % Base, n \div (Base * Base)>>)

Limb(a, i) == IF i <= Len(a) THEN a[i] ELSE 0

\* a < Base^2 * 2
IntOfBig(a) == Limb(a, 1) + Base * Limb(a, 2) + Base * Base * Limb(a, 3)

RECURSIVE BigCmpFrom(_, _, _)
BigCmpFrom(a, b, i) ==
    IF i = 0 THEN 0
    ELSE IF a[i] < b[i] THEN -1
    ELSE IF a[i] > b[i] THEN 1
    ELSE BigCmpFrom(a, b, i - 1)

BigCmp(a, b) ==
    IF Len(a) < Len(b) THEN -1
    ELSE IF Len(a) > Len(b) THEN 1
    ELSE BigCmpFrom(a, b, Len(a))

RECURSIVE BigAddC(_, _, _)
BigAddC(a, b, c) ==
    IF a = <<>> /\ b = <<>> THEN (IF c = 0 THEN <<>> ELSE <<c>>)
    ELSE <<(Limb(a, 1) + Limb(b, 1) + c) % Base>>
         \o BigAddC(IF a = <<>> THEN <<>> ELSE Tail(a),
                    IF b = <<>> THEN <<>> ELSE Tail(b),
                    (Limb(a, 1) + Limb(b, 1) + c) \div Base)

BigAdd(a, b) == BigAddC(a, b, 0)

RECURSIVE BigSubB(_, _, _)
BigSubB(a, b, c) ==
    IF a = <<>> THEN <<>>
    ELSE <<(Head(a) - Limb(b, 1) - c) % Base>>
         \o BigSubB(Tail(a),
                    IF b = <<>> THEN <<>> ELSE Tail(b),
                    IF Head(a) - Limb(b, 1) - c < 0 THEN 1 ELSE 0)

\* a - b for a >= b
BigSub(a, b) == IF b = <<>> THEN a ELSE BigNorm(BigSubB(a, b, 0))

RECURSIVE BigMulSmallC(_, _, _)
BigMulSmallC(a, d, c) ==
    IF a = <<>> THEN (IF c = 0 THEN <<>> ELSE <<c>>)
    ELSE <<(Head(a) * d + c) % Base>>
         \o BigMulSmallC(Tail(a), d, (Head(a) * d + c) \div Base)

\* a * d for 0 <= d <= Base
BigMulSmall(a, d) == IF d = 0 THEN <<>> ELSE BigMulSmallC(a, d, 0)

RECURSIVE BigMulFrom(_, _, _, _)
\* a * b, where acc is a times the limbs of b above k
BigMulFrom(a, b, k, acc) ==
    IF k = 0 THEN acc
    ELSE IF acc = <<>> THEN BigMulFrom(a, b, k - 1, BigMulSmall(a, b[k]))
    ELSE BigMulFrom(a, b, k - 1, BigAdd(BigMulSmall(a, b[k]), <<0>> \o acc))

BigMul(a, b) ==
    IF Len(a) < Len(b) THEN BigMulFrom(b, a, Len(a), <<>>)
    ELSE BigMulFrom(a, b, Len(b), <<>>)

\* the number of zero limbs below the lowest non-zero limb of a # 0
BigLowZeros(a) ==
    CHOOSE z \in 0..(Len(a) - 1) : a[z + 1] # 0 /\ \A k \in 1..z : a[k] = 0

\* a / Base^BigLowZeros(a)
BigSignificant(a) == SubSeq(a, BigLowZeros(a) + 1, Len(a))

\* a * 2^k
BigShl(a, k) ==
    IF a = <<>> THEN <<>>
    ELSE [i \in 1..(k \div 15) |-> 0] \o BigMulSmall(a, 2^(k % 15))

\* the number of bits of n < Base
SmallBitLen(n) == CHOOSE k \in 0..15 : n < 2^k /\ (k = 0 \/ n >= 2^(k - 1))

BigBitLen(a) ==
    IF a = <<>> THEN 0 ELSE 15 * (Len(a) - 1) + SmallBitLen(a[Len(a)])

\* floor(r / b) for r < Base * b.  The leading limbs bracket the digit, and
\* the bracket is narrow when the leading limb of b is at least Base / 2.
BigQuotDigit(r, b) ==
    IF BigCmp(r, b) < 0 THEN 0
    ELSE LET n  == Len(b)
             rt == r[n] + (IF Len(r) > n THEN Base * r[n + 1] ELSE 0)
             lo == rt \div (b[n] + 1)
             hi == IF rt \div b[n] >= Base THEN Base - 1 ELSE rt \div b[n]
         IN  CHOOSE d \in lo..hi :
                 /\ BigCmp(BigMulSmall(b, d), r) <= 0
                 /\ BigCmp(BigMulSmall(b, d + 1), r) > 0

RECURSIVE BigDivLoop(_, _, _, _, _)

\* the digit d of the quotient for the partial remainder r0, then limb k - 1
BigDivStep(a, b, k, q, r0, d) ==
    IF d = 0 THEN BigDivLoop(a, b, k - 1, <<0>> \o q, r0)
    ELSE BigDivLoop(a, b, k - 1, <<d>> \o q, BigSub(r0, BigMulSmall(b, d)))

\* long division from the leading limb down: q and r are the quotient and
\* the remainder of the limbs above k
BigDivLoop(a, b, k, q, r) ==
    IF k = 0 THEN [q |-> BigNorm(q), r |-> r]
    ELSE BigDivStep(a, b, k, q, BigNorm(<<a[k]>> \o r),
                    BigQuotDigit(BigNorm(<<a[k]>> \o r), b))

\* floor(a / b) and a mod b, for b > 0: the leading Len(b) - 1 limbs of a
\* are less than b
BigDivMod(a, b) ==
    IF Len(a) < Len(b) THEN [q |-> <<>>, r |-> a]
    ELSE BigDivLoop(a, b, Len(a) - Len(b) + 1, <<>>,
                    SubSeq(a, Len(a) - Len(b) + 2, Len(a)))

\* floor(a / 2^k)
BigShr(a, k) ==
    BigNorm([i \in 1..(Len(a) - (k \div 15)) |->
                (a[i + (k \div 15)] \div 2^(k % 15))
                + (Limb(a, i + (k \div 15) + 1) % 2^(k % 15)) * 2^(15 - (k % 15))]
            \o <<>>)

(***************************************************************************)
(* binary64: sgn * man * 2^exp with 2^52 <= man < 2^53, or zero.  The      *)
(* values of this program stay far inside the normal range, so neither     *)
(* subnormals nor infinities are represented.                              *)
(***************************************************************************)
MantBits == 53

FZero == [sgn |-> 1, man |-> <<>>, exp |-> 0]

\* m1 is the mantissa after rounding up: 2^53 is renormalised
FRoundUp(sgn, e, m1) ==
    IF BigBitLen(m1) > MantBits
    THEN [sgn |-> sgn, man |-> BigShr(m1, 1), exp |-> e + 1]
    ELSE [sgn |-> sgn, man |-> m1, exp |-> e]

\* the dropped part is at least half a unit of m0: a tie goes to even
FRoundTie(sgn, e, m0, sticky) ==
    IF sticky \/ Head(m0) % 2 = 1
    THEN FRoundUp(sgn, e, BigAdd(m0, <<1>>))
    ELSE [sgn |-> sgn, man |-> m0, exp |-> e]

\* h is the 54 leading bits: the mantissa and the first dropped bit
FRoundHalf(sgn, e, h, sticky) ==
    IF Head(h) % 2 = 0
    THEN [sgn |-> sgn, man |-> BigShr(h, 1), exp |-> e]
    ELSE FRoundTie(sgn, e, BigShr(h, 1), sticky)

FRoundDrop(sgn, q, sticky, e, drop) ==
    IF drop <= 0
    THEN [sgn |-> sgn, man |-> BigShl(q, -drop), exp |-> e + drop]
    ELSE FRoundHalf(sgn, e + drop, BigShr(q, drop - 1),
                    sticky \/ BigShl(BigShr(q, drop - 1), drop - 1) # q)

\* the binary64 nearest to sgn * (q + f) * 2^e, ties to even, where q is a
\* natural number and 0 <= f < 1, f # 0 iff sticky (sticky needs >= 54 bits)
FRoundInt(sgn, q, sticky, e) ==
    IF q = <<>> THEN FZero
    ELSE FRoundDrop(sgn, q, sticky, e, BigBitLen(q) - MantBits)

\* the binary64 nearest to sgn * (num / den) * 2^e for num, den # 0: the
\* quotient is computed to 54 or 55 bits, the remainder is the sticky bit
FRoundQuot(sgn, num, den, e) ==
    LET t  == 15 * Len(den) - BigBitLen(den)
        s  == (MantBits + 1) - (BigBitLen(num) - BigBitLen(den))
        dm == BigDivMod(BigShl(num, s + t), BigShl(den, t))
    IN  FRoundInt(sgn, dm.q, dm.r # <<>>, e - s)

\* the binary64 nearest to sgn * (num / den) * 2^e, ties to even; the zero
\* limbs at the low end of num and den go into the exponent
FRoundRatio(sgn, num, den, e) ==
    IF num = <<>> THEN FZero
    ELSE FRoundQuot(sgn, BigSignificant(num), BigSignificant(den),
                    e + 15 * (BigLowZeros(num) - BigLowZeros(den)))

\* int -> float
FOfInt(n) == FRoundInt(IF n < 0 THEN -1 ELSE 1,
                       BigOfInt(IF n < 0 THEN -n ELSE n), FALSE, 0)

\* float("k/den" written as a decimal literal): correctly rounded
FOfRatio(k, den) == FRoundRatio(1, BigOfInt(k), BigOfInt(den), 0)

FNeg(a) == [a EXCEPT !.sgn = -a.sgn]

FAdd(a, b) ==
    IF a.man = <<>> THEN b
    ELSE IF b.man = <<>> THEN a
    ELSE LET e  == IF a.exp < b.exp THEN a.exp ELSE b.exp
             x  == BigShl(a.man, a.exp - e)
             y  == BigShl(b.man, b.exp - e)
             c  == BigCmp(x, y)
         IN  IF a.sgn = b.sgn THEN FRoundInt(a.sgn, BigAdd(x, y), FALSE, e)
             ELSE IF c = 0 THEN FZero
             ELSE IF c > 0 THEN FRoundInt(a.sgn, BigSub(x, y), FALSE, e)
             ELSE FRoundInt(b.sgn, BigSub(y, x), FALSE, e)

FSub(a, b) == FAdd(a, FNeg(b))

FMul(a, b) ==
    IF a.man = <<>> \/ b.man = <<>> THEN FZero
    ELSE FRoundInt(a.sgn * b.sgn, BigMul(BigSignificant(a.man), BigSignificant(b.man)), FALSE,
                   a.exp + b.exp + 15 * (BigLowZeros(a.man) + BigLowZeros(b.man)))

\* a / b for b # 0
FDiv(a, b) == FRoundRatio(a.sgn * b.sgn, a.man, b.man, a.exp - b.exp)

FIsZero(a) == a.man = <<>>

\* a <= 0
FLeZero(a) == a.man = <<>> \/ a.sgn < 0

\* a >= 1
FGeOne(a) == a.man # <<>> /\ a.sgn > 0 /\ a.exp >= -(MantBits - 1)

\* math.ceil(a)
FCeil(a) ==
    IF a.man = <<>> THEN 0
    ELSE LET fl    == IF a.exp >= 0 THEN BigShl(a.man, a.exp)
                      ELSE BigShr(a.man, -a.exp)
             exact == a.exp >= 0 \/ BigShl(fl, -a.exp) = a.man
             q     == IntOfBig(fl)
         IN  IF a.sgn > 0 THEN (IF exact THEN q ELSE q + 1) ELSE -q

\* math.floor / np.floor of a >= 0
FFloor(a) ==
    IF a.man = <<>> THEN 0
    ELSE IF a.exp >= 0 THEN IntOfBig(BigShl(a.man, a.exp))
    ELSE IntOfBig(BigShr(a.man, -a.exp))

\* a < b
FLess(a, b) == LET d == FSub(a, b) IN d.man # <<>> /\ d.sgn < 0

FOne == FOfInt(1)

(***************************************************************************)
(* Bounds of the inputs.                                                   *)
(***************************************************************************)
MaxNormal == 4
MaxAnomaly == 7
MaxMinor == 2
PercDen == 4
MaxKey == 1

Seed == 88

VARIABLES
    pc,                 \* the statement the process is about to run
    run,                \* 1 for the first invocation, 2 for a re-run
    argv,               \* the options as written on the command line
    args,               \* parser.parse_args(): the options as int and float
    rngKey,             \* which generator numpy's RandomState happens to be
    dirs, files,        \* the file system under the working directory
    log,                \* stages performed by this invocation, in order
    err,                \* the uncaught exception, "" if none
    df,                 \* the concatenated table
    normal, anomaly,
    X_train_n, X_val_n, X_test_n,
    n_anol, perc_anol_test_a,
    X_val_a, X_test_a,
    arrays,             \* the eight arrays assembled in memory
    saved,              \* number of np.save calls completed by this invocation
    startFiles,         \* the files as they were when this invocation started
    first               \* what the first invocation read and wrote

vars == <<pc, run, argv, args, rngKey, dirs, files, log, err, df, normal, anomaly,
          X_train_n, X_val_n, X_test_n, n_anol, perc_anol_test_a,
          X_val_a, X_test_a, arrays, saved, startFiles, first>>

(***************************************************************************)
(* Tables.  A row is its class label (column 0) and its time series; the   *)
(* series is identified by the line of the raw file it came from.          *)
(***************************************************************************)
Row(c, t) == [Class |-> c, series |-> t]

RECURSIVE Labels(_, _, _)
\* n1 rows of class 1, n2 of class 2, n3 of class 3, interleaved
Labels(n1, n2, n3) ==
    IF n1 = 0 /\ n2 = 0 /\ n3 = 0 THEN <<>>
    ELSE (IF n2 > 0 THEN <<2>> ELSE <<>>) \o
         (IF n1 > 0 THEN <<1>> ELSE <<>>) \o
         (IF n3 > 0 THEN <<3>> ELSE <<>>) \o
         Labels(IF n1 > 0 THEN n1 - 1 ELSE 0,
                IF n2 > 0 THEN n2 - 1 ELSE 0,
                IF n3 > 0 THEN n3 - 1 ELSE 0)

MakeTable(n1, n2, n3) ==
    LET l == Labels(n1, n2, n3) IN [i \in 1..Len(l) |-> Row(l[i], i)]

RECURSIVE SumSeq(_)
SumSeq(s) == IF s = <<>> THEN 0 ELSE Head(s) + SumSeq(Tail(s))

RECURSIVE SortedSeq(_)
\* the elements of a finite set of integers in increasing order
SortedSeq(S) ==
    IF S = {} THEN <<>>
    ELSE LET m == CHOOSE x \in S : \A y \in S : x <= y
         IN  <<m>> \o SortedSeq(S \ {m})

\* numpy builds an array when the statement runs: s as a tuple, every
\* element evaluated
Array(s) == s \o <<>>

\* Python evaluates an argument before the call: F of the value of v
Call(v, F(_)) == CHOOSE y \in {F(x) : x \in {v}} : TRUE

Take(s, n) == SubSeq(s, 1, n)

\* s[lo:hi] for 0 <= lo <= hi: the slice stops at the end of s
Slice(s, lo, hi) ==
    SubSeq(s, (IF lo < Len(s) THEN lo ELSE Len(s)) + 1,
              IF hi < Len(s) THEN hi ELSE Len(s))
Drop(s, n) == SubSeq(s, n + 1, Len(s))

\* s[idx[1]], s[idx[2]], ...: positional indexing with an index array
TakeIdx(s, idx) == Array([i \in 1..Len(idx) |-> s[idx[i]]])

(***************************************************************************)
(* numpy RandomState(seed).permutation(n).  Which permutation a seed gives *)
(* is a fixed property of the generator, unknown here: rngKey selects it.  *)
(* The d-th call on one RandomState sees a later part of the stream.       *)
(***************************************************************************)
Permutation(seed, d, n) ==
    Array([i \in 1..n |-> ((i - 1 + seed + rngKey + d) % n) + 1])

\* a generator seeded differently in every process
RandomStateOfRun(r) == Seed + r

\* random_state = 88 at every call of train_test_split, in every process
RandomState(r) == Seed

(***************************************************************************)
(* sklearn.model_selection.train_test_split(rows, test_size = float,       *)
(* random_state = seed, stratify = ...), as called by the script.          *)
(***************************************************************************)
\* a validation that moves a test_size <= 0 into the range: one test row
\* where a row can be spared
ValidateShuffleSplitClamped(n_samples, test_size) ==
    IF FGeOne(test_size)
    THEN [ok |-> FALSE, n_train |-> 0, n_test |-> 0]
    ELSE LET n_test == IF FLeZero(test_size)
                       THEN (IF n_samples > 1 THEN 1 ELSE 0)
                       ELSE FCeil(FMul(test_size, FOfInt(n_samples)))
         IN  [ok      |-> n_samples - n_test # 0,
              n_train |-> n_samples - n_test,
              n_test  |-> n_test]

\* _validate_shuffle_split for a float test_size and train_size = None
ValidateShuffleSplit(n_samples, test_size) ==
    IF FLeZero(test_size) \/ FGeOne(test_size)
    THEN [ok |-> FALSE, n_train |-> 0, n_test |-> 0]
    ELSE LET n_test == FCeil(FMul(test_size, FOfInt(n_samples)))
         IN  [ok      |-> n_samples - n_test # 0,
              n_train |-> n_samples - n_test,
              n_test  |-> n_test]

SplitError == [ok |-> FALSE, train |-> <<>>, test |-> <<>>]

\* a train slice that starts one position early
ShufflePickOverlap(rows, v, perm) ==
    [ok    |-> TRUE,
     train |-> TakeIdx(rows, SubSeq(perm, v.n_test, v.n_test + v.n_train - 1)),
     test  |-> TakeIdx(rows, Take(perm, v.n_test))]

\* ShuffleSplit: the first n_test of one permutation are the test rows
ShufflePick(rows, v, perm) ==
    [ok    |-> TRUE,
     train |-> TakeIdx(rows, SubSeq(perm, v.n_test + 1, v.n_test + v.n_train)),
     test  |-> TakeIdx(rows, Take(perm, v.n_test))]

ShuffleSplit(rows, v, seed) ==
    ShufflePick(rows, v, Permutation(seed, 0, Len(rows)))

Range(s) == {s[i] : i \in 1..Len(s)}

Min(a, b) == IF a < b THEN a ELSE b

RECURSIVE AddRemainders(_, _, _, _, _, _)

\* floored[inds] += 1 for the indices rng.choice picked, then the next value
AddPicked(floored, remainder, rest, need, seed, d, picked) ==
    Call(Array([i \in DOMAIN floored |->
                   floored[i] + (IF i \in picked THEN 1 ELSE 0)]),
         LAMBDA added :
             AddRemainders(added, remainder, rest, need - Cardinality(picked),
                           seed, d + 1))

\* inds = np.where(remainder == value); rng.choice(inds, size = add_now)
AddTies(floored, remainder, pending, need, seed, d, inds) ==
    AddPicked(floored, remainder, pending \ Range(inds), need, seed, d,
              Range(TakeIdx(inds, Take(Permutation(seed, d, Len(inds)),
                                       Min(Len(inds), need)))))

\* the classes whose remainder is the largest one still pending
TopTies(remainder, pending) ==
    {i \in pending : \A j \in pending : ~FLess(remainder[i], remainder[j])}

\* the loop of _approximate_mode over the distinct remainders, largest first
AddRemainders(floored, remainder, pending, need, seed, d) ==
    IF need <= 0 \/ pending = {} THEN floored
    ELSE AddTies(floored, remainder, pending, need, seed, d,
                 SortedSeq(TopTies(remainder, pending)))

\* continuous = class_counts / class_counts.sum() * n_draws
Continuous(class_counts, n_draws) ==
    Array([i \in DOMAIN class_counts |->
        FMul(FDiv(FOfInt(class_counts[i]), FOfInt(SumSeq(class_counts))),
             FOfInt(n_draws))])

\* remainder = continuous - floored; need_to_add = n_draws - floored.sum()
ApproximateAdd(continuous, floored, n_draws, seed, d) ==
    Call(Array([i \in DOMAIN floored |->
                   FSub(continuous[i], FOfInt(floored[i]))]),
         LAMBDA remainder :
             AddRemainders(floored, remainder, DOMAIN floored,
                           n_draws - SumSeq(floored), seed, d))

ApproximateFloor(continuous, n_draws, seed, d) ==
    Call(Array([i \in DOMAIN continuous |-> FFloor(continuous[i])]),
         LAMBDA floored : ApproximateAdd(continuous, floored, n_draws, seed, d))

\* _approximate_mode(class_counts, n_draws, rng)
ApproximateMode(class_counts, n_draws, seed, d) ==
    Call(Continuous(class_counts, n_draws),
         LAMBDA continuous : ApproximateFloor(continuous, n_draws, seed, d))

RECURSIVE ConcatAll(_)
ConcatAll(ss) == IF ss = <<>> THEN <<>> ELSE Head(ss) \o ConcatAll(Tail(ss))

\* the positions of each class, classes in increasing order (np.unique)
ClassIndices(rows) ==
    LET classes == SortedSeq({rows[i].Class : i \in 1..Len(rows)})
    IN  [i \in 1..Len(classes) |->
            SortedSeq({j \in 1..Len(rows) : rows[j].Class = classes[i]})]

\* train = rng.permutation(train); test = rng.permutation(test)
StratifiedPermute(rows, seed, n_cls, train, test) ==
    [ok    |-> TRUE,
     train |-> TakeIdx(rows, TakeIdx(train,
                   Permutation(seed, 7 + n_cls + 1, Len(train)))),
     test  |-> TakeIdx(rows, TakeIdx(test,
                   Permutation(seed, 7 + n_cls + 2, Len(test))))]

\* a test slice taken from the start of the class, not after its train rows
StratifiedTakeFromStart(rows, seed, shuffled, n_i, t_i) ==
    StratifiedPermute(rows, seed, Len(shuffled),
        ConcatAll([i \in DOMAIN shuffled |-> Slice(shuffled[i], 0, n_i[i])]),
        ConcatAll([i \in DOMAIN shuffled |-> Slice(shuffled[i], 0, t_i[i])]))

\* per class: the first n_i of its permuted rows train, the next t_i test
StratifiedTake(rows, seed, shuffled, n_i, t_i) ==
    StratifiedPermute(rows, seed, Len(shuffled),
        ConcatAll([i \in DOMAIN shuffled |-> Slice(shuffled[i], 0, n_i[i])]),
        ConcatAll([i \in DOMAIN shuffled |->
                      Slice(shuffled[i], n_i[i], n_i[i] + t_i[i])]))

StratifiedDraw(rows, v, seed, class_indices, n_i) ==
    Call(ApproximateMode([i \in DOMAIN class_indices |->
                             Len(class_indices[i]) - n_i[i]],
                         v.n_test, seed, 4),
         LAMBDA t_i :
             StratifiedTake(rows, seed,
                 [i \in DOMAIN class_indices |->
                     TakeIdx(class_indices[i],
                             Permutation(seed, 7 + i, Len(class_indices[i])))],
                 n_i, t_i))

StratifiedCheck(rows, v, seed, class_indices) ==
    IF \/ \E i \in DOMAIN class_indices : Len(class_indices[i]) < 2
       \/ v.n_train < Len(class_indices)
       \/ v.n_test < Len(class_indices)
    THEN SplitError
    ELSE Call(ApproximateMode([i \in DOMAIN class_indices |->
                                  Len(class_indices[i])],
                              v.n_train, seed, 1),
              LAMBDA n_i : StratifiedDraw(rows, v, seed, class_indices, n_i))

\* StratifiedShuffleSplit on the Class column
StratifiedShuffleSplit(rows, v, seed) ==
    StratifiedCheck(rows, v, seed, ClassIndices(rows))

SplitValidated(rows, v, seed, stratify) ==
    IF ~v.ok THEN SplitError
    ELSE IF stratify THEN StratifiedShuffleSplit(rows, v, seed)
    ELSE ShuffleSplit(rows, v, seed)

TrainTestSplit(rows, test_size, seed, stratify) ==
    SplitValidated(rows, ValidateShuffleSplit(Len(rows), test_size), seed, stratify)

(***************************************************************************)
(* The file system.                                                        *)
(***************************************************************************)
DataDir == "data"
EcgDir == "data/ECG5000"
NumpyDir == "data/ECG5000/numpy"

ZipPath == "data/ECG5000.zip"
TrainTxt == "data/ECG5000/ECG5000_TRAIN.txt"
TestTxt == "data/ECG5000/ECG5000_TEST.txt"

\* the files deleted after the extraction, in the order of the os.remove calls
Useless == <<ZipPath,
             "data/ECG5000/ECG5000_TRAIN.arff",
             "data/ECG5000/ECG5000_TRAIN.ts",
             "data/ECG5000/ECG5000_TEST.ts",
             "data/ECG5000/ECG5000_TEST.arff",
             "data/ECG5000/ECG5000.txt">>

\* the arrays, in the order of the np.save calls
Outputs == <<"data/ECG5000/numpy/X_train.npy",
             "data/ECG5000/numpy/y_train.npy",
             "data/ECG5000/numpy/X_val.npy",
             "data/ECG5000/numpy/y_val.npy",
             "data/ECG5000/numpy/X_val_p.npy",
             "data/ECG5000/numpy/y_val_p.npy",
             "data/ECG5000/numpy/X_test.npy",
             "data/ECG5000/numpy/y_test.npy">>

OutputSet == Range(Outputs)
FileNames == {TrainTxt, TestTxt} \cup Range(Useless) \cup OutputSet

Absent == [kind |-> "absent", data |-> <<>>]
TextFile(rows) == [kind |-> "text", data |-> rows]
NpyFile(a) == [kind |-> "npy", data |-> a]
\* bytes that are not what the reader expects (an HTML error page, a
\* truncated archive, a text file with surplus fields)
Garbage == [kind |-> "garbage", data |-> <<>>]
OtherFile == [kind |-> "other", data |-> <<>>]
\* an archive: its members as <<path after extraction, content>>
ZipFile(members) == [kind |-> "zip", data |-> members]

\* ECG5000.zip as served for a table; the served archive may lack a member
Archive(table, complete) ==
    ZipFile(<<<<TrainTxt, TextFile(Take(table, Len(table) \div 2))>>,
              <<TestTxt, TextFile(Drop(table, Len(table) \div 2))>>>> \o
            [i \in 1..(IF complete THEN 5 ELSE 4) |-> <<Useless[i + 1], OtherFile>>])

OutputsOf(f) == [o \in OutputSet |-> f[o]]
OutsideNumpy(f) == [n \in FileNames \ OutputSet |-> f[n]]

(***************************************************************************)
(* data_preparation()                                                      *)
(***************************************************************************)
\* a test for the documented value 1 only
TruthyOne(download) == download = 1

\* "if args.download:" for an int
Truthy(download) == download # 0

\* type=float applied to the decimal literal of p[1] / p[2]
Perc(p) == FOfRatio(p[1], p[2])

\* args = parser.parse_args()
ParseArgs(v) ==
    [download    |-> v.download,
     perc_tr_n   |-> Perc(v.perc_tr_n),
     perc_val_n  |-> Perc(v.perc_val_n),
     perc_val_an |-> Perc(v.perc_val_an)]

NoArrays == [o \in OutputSet |-> <<>>]

locals == <<df, normal, anomaly, X_train_n, X_val_n, X_test_n, n_anol,
            perc_anol_test_a, X_val_a, X_test_a, arrays, saved>>

world == <<run, argv, args, rngKey, startFiles, first>>

NoError == [type |-> "", at |-> ""]

\* an uncaught exception ends the process
Raise(e) == pc' = "aborted" /\ err' = [type |-> e, at |-> pc]

\* lines 36-41
MkDataDir ==
    /\ pc = "start"
    /\ Truthy(args.download)
    /\ IF EcgDir \in dirs
       THEN pc' = "download" /\ UNCHANGED <<dirs, err>>
       ELSE IF DataDir \in dirs
       THEN pc' = "download" /\ dirs' = dirs \cup {EcgDir} /\ UNCHANGED err
       ELSE Raise("FileNotFoundError") /\ UNCHANGED dirs
    /\ UNCHANGED <<files, log, locals, world>>

\* line 37, download = 0
SkipDownload ==
    /\ pc = "start"
    /\ ~Truthy(args.download)
    /\ pc' = "mkdir_numpy"
    /\ UNCHANGED <<dirs, files, log, err, locals, world>>

\* what the server may answer: the archive of one of the published tables,
\* possibly without one of its members, or a body that is no archive
ServerTables == {MakeTable(4, 4, 0), MakeTable(4, 5, 0)}
ServedBodies == {Archive(t, c) : t \in ServerTables, c \in BOOLEAN} \cup {Garbage}

\* lines 43-48, download_url lines 13-18
Download ==
    /\ pc = "download"
    /\ log' = Append(log, "fetch")
    /\ \/ Raise("ConnectionError") /\ UNCHANGED files
       \/ /\ files' = [files EXCEPT ![ZipPath] = Garbage]
          /\ Raise("ChunkedEncodingError")
       \/ \E body \in ServedBodies :
              /\ files' = [files EXCEPT ![ZipPath] = body]
              /\ pc' = "unzip"
              /\ UNCHANGED err
    /\ UNCHANGED <<dirs, locals, world>>

\* an extraction into an emptied directory tree
ExtractAllFresh(f, members) ==
    [n \in FileNames |->
        IF \E i \in 1..Len(members) : members[i][1] = n
        THEN members[CHOOSE i \in 1..Len(members) : members[i][1] = n][2]
        ELSE IF n \in OutputSet THEN Absent ELSE f[n]]

\* zip.extractall(save_path): every member is written, replacing older files
ExtractAll(f, members) ==
    [n \in FileNames |->
        IF \E i \in 1..Len(members) : members[i][1] = n
        THEN members[CHOOSE i \in 1..Len(members) : members[i][1] = n][2]
        ELSE f[n]]

\* lines 50-56
Unzip ==
    /\ pc = "unzip"
    /\ log' = Append(log, "extract")
    /\ IF files[ZipPath].kind = "zip"
       THEN /\ files' = ExtractAll(files, files[ZipPath].data)
            /\ pc' = "remove"
            /\ UNCHANGED err
       ELSE Raise("BadZipFile") /\ UNCHANGED files
    /\ UNCHANGED <<dirs, locals, world>>

\* the os.remove calls that succeed: those before the first missing file
Removable(f) ==
    LET missing == {i \in 1..Len(Useless) : f[Useless[i]].kind = "absent"}
    IN  IF missing = {} THEN Len(Useless)
        ELSE (CHOOSE i \in missing : \A j \in missing : i <= j) - 1

\* lines 58-64
RemoveUseless ==
    /\ pc = "remove"
    /\ log' = Append(log, "cleanup")
    /\ LET k == Removable(files)
       IN  /\ files' = [n \in FileNames |->
                           IF \E i \in 1..k : Useless[i] = n THEN Absent ELSE files[n]]
           /\ IF k = Len(Useless)
              THEN pc' = "mkdir_numpy" /\ UNCHANGED err
              ELSE Raise("FileNotFoundError")
    /\ UNCHANGED <<dirs, locals, world>>

\* lines 66-70
MkNumpyDir ==
    /\ pc = "mkdir_numpy"
    /\ IF NumpyDir \in dirs
       THEN pc' = "load" /\ UNCHANGED <<dirs, err>>
       ELSE IF EcgDir \in dirs
       THEN pc' = "load" /\ dirs' = dirs \cup {NumpyDir} /\ UNCHANGED err
       ELSE Raise("FileNotFoundError") /\ UNCHANGED dirs
    /\ UNCHANGED <<files, log, locals, world>>

\* pd.read_table of one file: "" if it parses, else the exception
ReadError(file) ==
    IF file.kind = "absent" THEN "FileNotFoundError"
    ELSE IF file.kind # "text" THEN "ParserError"
    ELSE IF file.data = <<>> THEN "EmptyDataError"
    ELSE ""

\* lines 72-80
LoadData ==
    /\ pc = "load"
    /\ log' = Append(log, "load")
    /\ IF ReadError(files[TrainTxt]) # ""
       THEN Raise(ReadError(files[TrainTxt])) /\ UNCHANGED df
       ELSE IF ReadError(files[TestTxt]) # ""
       THEN Raise(ReadError(files[TestTxt])) /\ UNCHANGED df
       ELSE /\ df' = files[TrainTxt].data \o files[TestTxt].data
            /\ pc' = "divide"
            /\ UNCHANGED err
    /\ UNCHANGED <<dirs, files, normal, anomaly, X_train_n, X_val_n, X_test_n,
                   n_anol, perc_anol_test_a, X_val_a, X_test_a, arrays, saved,
                   world>>

\* a selection that lets the label 2 through
IsNormalLoose(r) == r.Class <= 2

\* df.Class == 1 and df.Class != 1
IsNormal(r) == r.Class = 1
IsAnomaly(r) == r.Class # 1

\* lines 82-84
DivideClasses ==
    /\ pc = "divide"
    /\ normal' = SelectSeq(df, IsNormal)
    /\ anomaly' = SelectSeq(df, IsAnomaly)
    /\ pc' = "split_train"
    /\ UNCHANGED <<dirs, files, log, err, df, X_train_n, X_val_n, X_test_n,
                   n_anol, perc_anol_test_a, X_val_a, X_test_a, arrays, saved,
                   world>>

\* X_train_n, X_val_n = train_test_split(...)
AssignTrain(r) ==
    IF r.ok
    THEN /\ X_train_n' = r.train
         /\ X_val_n' = r.test
         /\ pc' = "split_val"
         /\ UNCHANGED err
    ELSE Raise("ValueError") /\ UNCHANGED <<X_train_n, X_val_n>>

\* line 87
SplitTrain ==
    /\ pc = "split_train"
    /\ AssignTrain(TrainTestSplit(normal, FSub(FOne, args.perc_tr_n),
                                  RandomState(run), FALSE))
    /\ UNCHANGED <<dirs, files, log, df, normal, anomaly, X_test_n, n_anol,
                   perc_anol_test_a, X_val_a, X_test_a, arrays, saved, world>>

\* X_val_n, X_test_n = train_test_split(...)
AssignVal(r) ==
    IF r.ok
    THEN /\ X_val_n' = r.train
         /\ X_test_n' = r.test
         /\ pc' = "split_anomaly"
         /\ UNCHANGED err
    ELSE Raise("ValueError") /\ UNCHANGED <<X_val_n, X_test_n>>

\* line 88
SplitVal ==
    /\ pc = "split_val"
    /\ AssignVal(TrainTestSplit(X_val_n, FSub(FOne, args.perc_val_n),
                                RandomState(run), FALSE))
    /\ UNCHANGED <<dirs, files, log, df, normal, anomaly, X_train_n, n_anol,
                   perc_anol_test_a, X_val_a, X_test_a, arrays, saved, world>>

\* X_val_a, X_test_a = train_test_split(...)
AssignAnomaly(r) ==
    IF r.ok
    THEN /\ X_val_a' = r.train
         /\ X_test_a' = r.test
         /\ pc' = "assemble"
         /\ UNCHANGED err
    ELSE Raise("ValueError") /\ UNCHANGED <<X_val_a, X_test_a>>

\* n_anol = len(X_train_n) * perc_anol_all / (1 - perc_anol_all)
AnomalyCountOver(perc_anol_all, rest) ==
    IF FIsZero(rest)
    THEN Raise("ZeroDivisionError") /\ UNCHANGED n_anol
    ELSE /\ n_anol' = FDiv(FMul(FOfInt(Len(X_train_n)), perc_anol_all), rest)
         /\ pc' = "anomaly_fraction"
         /\ UNCHANGED err

\* lines 90-92
AnomalyCount ==
    /\ pc = "split_anomaly"
    /\ AnomalyCountOver(args.perc_val_an, FSub(FOne, args.perc_val_an))
    /\ UNCHANGED <<dirs, files, log, df, normal, anomaly, X_train_n, X_val_n,
                   X_test_n, perc_anol_test_a, X_val_a, X_test_a, arrays, saved,
                   world>>

\* lines 93-94
AnomalyFraction ==
    /\ pc = "anomaly_fraction"
    /\ IF Len(anomaly) = 0
       THEN Raise("ZeroDivisionError") /\ UNCHANGED perc_anol_test_a
       ELSE /\ perc_anol_test_a' = FSub(FOne, FDiv(n_anol, FOfInt(Len(anomaly))))
            /\ pc' = "stratified_split"
            /\ UNCHANGED err
    /\ UNCHANGED <<dirs, files, log, df, normal, anomaly, X_train_n, X_val_n,
                   X_test_n, n_anol, X_val_a, X_test_a, arrays, saved, world>>

\* lines 95-98
SplitAnomaly ==
    /\ pc = "stratified_split"
    /\ AssignAnomaly(TrainTestSplit(anomaly, perc_anol_test_a, RandomState(run), TRUE))
    /\ UNCHANGED <<dirs, files, log, df, normal, anomaly, X_train_n, X_val_n,
                   X_test_n, n_anol, perc_anol_test_a, arrays, saved, world>>

\* a concatenation that keeps its first frame only
ConcatFirst(a, b) == a

\* pd.concat([a, b])
Concat(a, b) == a \o b

\* .iloc[:, 1:].values and .iloc[:, 0].values
Features(rows) == [i \in 1..Len(rows) |-> rows[i].series]
Classes(rows) == [i \in 1..Len(rows) |-> rows[i].Class]

\* lines 100-114
Assemble ==
    /\ pc = "assemble"
    /\ arrays' = [o \in OutputSet |->
          CASE o = Outputs[1] -> Features(X_train_n)
            [] o = Outputs[2] -> Classes(X_train_n)
            [] o = Outputs[3] -> Concat(Features(X_val_n), Features(X_val_a))
            [] o = Outputs[4] -> Concat(Classes(X_val_n), Classes(X_val_a))
            [] o = Outputs[5] -> Features(X_val_n)
            [] o = Outputs[6] -> Classes(X_val_n)
            [] o = Outputs[7] -> Concat(Features(X_test_n), Features(X_test_a))
            [] o = Outputs[8] -> Concat(Classes(X_test_n), Classes(X_test_a))]
    /\ pc' = "save"
    /\ UNCHANGED <<dirs, files, log, err, df, normal, anomaly, X_train_n,
                   X_val_n, X_test_n, n_anol, perc_anol_test_a, X_val_a,
                   X_test_a, saved, world>>

\* lines 116-132, one np.save at a time
Save ==
    /\ pc = "save"
    /\ files' = [files EXCEPT ![Outputs[saved + 1]] =
                                  NpyFile(arrays[Outputs[saved + 1]])]
    /\ saved' = saved + 1
    /\ pc' = IF saved + 1 = Len(Outputs) THEN "done" ELSE "save"
    /\ UNCHANGED <<dirs, log, err, df, normal, anomaly, X_train_n, X_val_n,
                   X_test_n, n_anol, perc_anol_test_a, X_val_a, X_test_a,
                   arrays, world>>

(***************************************************************************)
(* A second invocation of the script on the same working directory, with   *)
(* the same percentages.                                                   *)
(***************************************************************************)
DownloadArgs == {0, 1, 2}

FreshLocals ==
    /\ df = <<>> /\ normal = <<>> /\ anomaly = <<>>
    /\ X_train_n = <<>> /\ X_val_n = <<>> /\ X_test_n = <<>>
    /\ n_anol = FZero /\ perc_anol_test_a = FZero
    /\ X_val_a = <<>> /\ X_test_a = <<>>
    /\ arrays = NoArrays /\ saved = 0

NextRun ==
    /\ pc \in {"done", "aborted"}
    /\ run = 1
    /\ run' = 2
    /\ first' = [ended |-> pc, df |-> df, out |-> OutputsOf(files)]
    /\ \E d \in DownloadArgs :
           /\ argv' = [argv EXCEPT !.download = d]
           /\ args' = ParseArgs(argv')
    /\ startFiles' = files
    /\ pc' = "start"
    /\ log' = <<>>
    /\ err' = NoError
    /\ df' = <<>> /\ normal' = <<>> /\ anomaly' = <<>>
    /\ X_train_n' = <<>> /\ X_val_n' = <<>> /\ X_test_n' = <<>>
    /\ n_anol' = FZero /\ perc_anol_test_a' = FZero
    /\ X_val_a' = <<>> /\ X_test_a' = <<>>
    /\ arrays' = NoArrays /\ saved' = 0
    /\ UNCHANGED <<rngKey, dirs, files>>

(***************************************************************************)
(* Initial states: the script is started in a working directory.           *)
(***************************************************************************)
NoFiles == [n \in FileNames |-> Absent]

WithText(f, table) ==
    [f EXCEPT ![TrainTxt] = TextFile(Take(table, Len(table) \div 2)),
              ![TestTxt] = TextFile(Drop(table, Len(table) \div 2))]

StaleOutputs(f) == [n \in FileNames |-> IF n \in OutputSet THEN NpyFile(<<0>>) ELSE f[n]]

DiskTable == MakeTable(4, 4, 0)

DiskStates ==
    { [dirs |-> {}, files |-> NoFiles],
      [dirs |-> {DataDir}, files |-> NoFiles],
      [dirs |-> {DataDir, EcgDir}, files |-> WithText(NoFiles, DiskTable)],
      [dirs |-> {DataDir, EcgDir, NumpyDir},
       files |-> StaleOutputs(WithText(NoFiles, DiskTable))],
      [dirs |-> {DataDir, EcgDir, NumpyDir},
       files |-> StaleOutputs([WithText(NoFiles, DiskTable) EXCEPT ![TestTxt] = Garbage])] }

IoPercs == {<<0, 1>>, <<1, 2>>, <<1, 1>>}

NoFirst == [ended |-> "", df |-> <<>>, out |-> [o \in OutputSet |-> Absent]]

Init ==
    /\ pc = "start"
    /\ run = 1
    /\ argv \in [download : DownloadArgs, perc_tr_n : IoPercs,
                 perc_val_n : IoPercs, perc_val_an : IoPercs]
    /\ args = ParseArgs(argv)
    /\ rngKey \in 0..MaxKey
    /\ \E d \in DiskStates : dirs = d.dirs /\ files = d.files /\ startFiles = d.files
    /\ log = <<>>
    /\ err = NoError
    /\ FreshLocals
    /\ first = NoFirst

Next ==
    \/ MkDataDir
    \/ SkipDownload
    \/ Download
    \/ Unzip
    \/ RemoveUseless
    \/ MkNumpyDir
    \/ LoadData
    \/ DivideClasses
    \/ SplitTrain
    \/ SplitVal
    \/ AnomalyCount
    \/ AnomalyFraction
    \/ SplitAnomaly
    \/ Assemble
    \/ Save
    \/ NextRun

Spec == Init /\ [][Next]_vars

(***************************************************************************)
(* The partitioner alone (lines 82-132), started on a loaded table.        *)
(***************************************************************************)
PartPercs == {<<k, PercDen>> : k \in 0..PercDen}

PartTables ==
    {MakeTable(n1, n2, n3) : n1 \in 0..MaxNormal, n2 \in 0..MaxAnomaly, n3 \in 0..MaxMinor}

PartInit ==
    /\ pc = "divide"
    /\ run = 1
    /\ argv \in [download : {0}, perc_tr_n : PartPercs,
                 perc_val_n : PartPercs, perc_val_an : PartPercs]
    /\ args = ParseArgs(argv)
    /\ rngKey \in 0..MaxKey
    /\ df \in {t \in PartTables :
                  /\ Len(t) >= 2
                  /\ Len(SelectSeq(t, IsAnomaly)) <= MaxAnomaly}
    /\ dirs = {DataDir, EcgDir, NumpyDir}
    /\ files = WithText(NoFiles, df)
    /\ startFiles = files
    /\ log = <<"load">>
    /\ err = NoError
    /\ normal = <<>> /\ anomaly = <<>>
    /\ X_train_n = <<>> /\ X_val_n = <<>> /\ X_test_n = <<>>
    /\ n_anol = FZero /\ perc_anol_test_a = FZero
    /\ X_val_a = <<>> /\ X_test_a = <<>>
    /\ arrays = NoArrays /\ saved = 0
    /\ first = NoFirst

PartNext ==
    \/ DivideClasses
    \/ SplitTrain
    \/ SplitVal
    \/ AnomalyCount
    \/ AnomalyFraction
    \/ SplitAnomaly
    \/ Assemble
    \/ Save

PartSpec == PartInit /\ [][PartNext]_vars

(***************************************************************************)
(* Properties of the partitioner, checked under PartSpec.                  *)
(***************************************************************************)
\* where the process is once line 88 has returned
AfterNormalSplits ==
    \/ pc \in {"split_anomaly", "anomaly_fraction", "stratified_split",
               "assemble", "save", "done"}
    \/ pc = "aborted" /\ err.at \in {"split_anomaly", "anomaly_fraction",
                                     "stratified_split"}

\* where the process is once line 98 has returned
AfterAnomalySplit == pc \in {"assemble", "save", "done"}

\* where the process is once line 114 has run
Assembled == pc \in {"save", "done"}

\* how often row r occurs in the sequence s
Occurrences(r, s) == Cardinality({j \in DOMAIN s : s[j] = r})

\* C1: once the arrays are assembled, y_train holds no label other than 1
\* and no series of the anomaly group is in X_train, in the arrays and in
\* the files np.save wrote from them
C1_TrainOnlyNormal ==
    Assembled =>
        /\ \A i \in DOMAIN arrays[Outputs[2]] : arrays[Outputs[2]][i] = 1
        /\ \A i \in DOMAIN arrays[Outputs[1]] : \A j \in DOMAIN anomaly :
               arrays[Outputs[1]][i] # anomaly[j].series
        /\ saved >= 1 => files[Outputs[1]] = NpyFile(arrays[Outputs[1]])
        /\ saved >= 2 => files[Outputs[2]] = NpyFile(arrays[Outputs[2]])

C1_Witness ==
    /\ pc = "done"
    /\ Len(files[Outputs[2]].data) >= 2
    /\ Len(anomaly) >= 2

\* C2: after the two splits of the normal group every normal row is in
\* exactly one of X_train_n, X_val_n, X_test_n, and the three sizes add up
\* to the size of the group
C2_NormalPartition ==
    AfterNormalSplits =>
        /\ Len(X_train_n) + Len(X_val_n) + Len(X_test_n) = Len(normal)
        /\ \A i \in DOMAIN normal :
               Occurrences(normal[i], X_train_n \o X_val_n \o X_test_n) = 1

C2_Witness ==
    /\ pc = "split_anomaly"
    /\ Len(normal) = MaxNormal
    /\ Len(X_train_n) >= 1 /\ Len(X_val_n) >= 1 /\ Len(X_test_n) >= 1

\* C3: after the stratified split every anomalous row is in exactly one of
\* X_val_a, X_test_a, and the two sizes add up to the size of the group
C3_AnomalyPartition ==
    AfterAnomalySplit =>
        /\ Len(X_val_a) + Len(X_test_a) = Len(anomaly)
        /\ \A i \in DOMAIN anomaly :
               Occurrences(anomaly[i], X_val_a \o X_test_a) = 1

C3_Witness ==
    /\ pc = "assemble"
    /\ \E i, j \in DOMAIN anomaly : anomaly[i].Class # anomaly[j].Class
    /\ Len(X_val_a) >= 2 /\ Len(X_test_a) >= 2

\* C4: the number of anomalous validation rows differs by less than 1 from
\* |train_n| * perc_val_an / (1 - perc_val_an), with perc_val_an as written
\* on the command line, whatever perc_val_n and the validation rows are
C4_CountFromTrain ==
    AfterAnomalySplit =>
        /\ (Len(X_val_a) - 1) * (argv.perc_val_an[2] - argv.perc_val_an[1])
               < Len(X_train_n) * argv.perc_val_an[1]
        /\ Len(X_train_n) * argv.perc_val_an[1]
               < (Len(X_val_a) + 1) * (argv.perc_val_an[2] - argv.perc_val_an[1])

\* C5: in the assembled arrays every row of val_p is a row of val with the
\* same series and label, and val has a row with a label other than 1 whose
\* series is not in val_p; a completed run has written exactly these arrays
C5_ValPStrictSubset ==
    Assembled =>
        /\ \A i \in DOMAIN arrays[Outputs[5]] : \E j \in DOMAIN arrays[Outputs[3]] :
               /\ arrays[Outputs[3]][j] = arrays[Outputs[5]][i]
               /\ arrays[Outputs[4]][j] = arrays[Outputs[6]][i]
        /\ \E j \in DOMAIN arrays[Outputs[3]] :
               /\ arrays[Outputs[4]][j] # 1
               /\ \A i \in DOMAIN arrays[Outputs[5]] :
                      arrays[Outputs[5]][i] # arrays[Outputs[3]][j]
        /\ pc = "done" => \A o \in OutputSet : files[o] = NpyFile(arrays[o])

C5_Witness ==
    /\ pc = "done"
    /\ Len(files[Outputs[5]].data) >= 1
    /\ Len(files[Outputs[3]].data) >= 3

\* 1 - n_anol / len(anomaly), from the values lines 92-94 use
TestFraction == FSub(FOne, FDiv(n_anol, FOfInt(Len(anomaly))))

\* where the process is once line 94 has run
ShareComputed ==
    \/ pc = "stratified_split"
    \/ AfterAnomalySplit
    \/ pc = "aborted" /\ err.at = "stratified_split"

\* nothing of the anomaly split and nothing of the outputs exists
NothingProduced ==
    /\ X_val_a = <<>> /\ X_test_a = <<>>
    /\ saved = 0
    /\ OutputsOf(files) = OutputsOf(startFiles)

\* C6: with perc_val_an = 1 the process does not get past line 92 and ends
\* in ZeroDivisionError; with a test fraction <= 0 it does not get past the
\* stratified split and ends in ValueError; in both cases no anomalous row
\* is placed and no output file is written
C6_OutOfRangeRaises ==
    /\ (AfterNormalSplits /\ argv.perc_val_an[1] = argv.perc_val_an[2]) =>
           /\ \/ pc = "split_anomaly"
              \/ pc = "aborted"
                 /\ err = [type |-> "ZeroDivisionError", at |-> "split_anomaly"]
           /\ NothingProduced
    /\ (ShareComputed /\ FLeZero(TestFraction)) =>
           /\ \/ pc = "stratified_split"
              \/ pc = "aborted"
                 /\ err = [type |-> "ValueError", at |-> "stratified_split"]
           /\ NothingProduced

C6_Witness ==
    /\ pc = "aborted"
    /\ err.at = "stratified_split"
    /\ argv.perc_val_an[1] < argv.perc_val_an[2]
    /\ FLeZero(TestFraction)

\* the distinct labels of the anomaly group
AnomalyLabels == {anomaly[i].Class : i \in DOMAIN anomaly}

\* C7: with a perc_val_an above 0 that puts n_anol below the number of
\* distinct anomalous labels (in particular below 1), and every anomalous
\* label on at least two rows, the run does not abort: the split returns
\* and the outputs are produced
C7_NearZeroCompletes ==
    (/\ ShareComputed
     /\ argv.perc_val_an[1] > 0
     /\ FLess(n_anol, FOfInt(Cardinality(AnomalyLabels)))
     /\ \A c \in AnomalyLabels :
            Cardinality({i \in DOMAIN anomaly : anomaly[i].Class = c}) >= 2)
        => pc # "aborted"

Stages == <<"fetch", "extract", "cleanup", "load">>

IsPrefix(s, t) == Len(s) <= Len(t) /\ SubSeq(t, 1, Len(s)) = s

\* C9: with download = 0 the only stage is the load and no file outside
\* data/ECG5000/numpy changes; with download # 0 the stages are fetch,
\* extract, cleanup, load in this order, all three before the load, and the
\* archive and the five unneeded files are gone when the load starts
C9_DownloadGate ==
    /\ argv.download = 0 =>
           /\ IsPrefix(log, <<"load">>)
           /\ OutsideNumpy(files) = OutsideNumpy(startFiles)
    /\ argv.download # 0 =>
           /\ IsPrefix(log, Stages)
           /\ pc \in {"mkdir_numpy", "load"} => log = SubSeq(Stages, 1, 3)
           /\ (\E i \in DOMAIN log : log[i] = "load") =>
                  /\ log = Stages
                  /\ \A i \in DOMAIN Useless : files[Useless[i]] = Absent

C9_Witness ==
    /\ argv.download = 2
    /\ log = Stages
    /\ pc = "done"

\* C10: until the arrays are assembled the eight output files are as the
\* process found them, so a process that aborts leaves them unchanged; the
\* files are then written one by one from the assembled arrays
C10_OutputsAfterPartitions ==
    /\ ~Assembled => saved = 0 /\ OutputsOf(files) = OutputsOf(startFiles)
    /\ Assembled => \A k \in DOMAIN Outputs :
           files[Outputs[k]] = IF k <= saved THEN NpyFile(arrays[Outputs[k]])
                               ELSE startFiles[Outputs[k]]

C10_Witness ==
    /\ run = 2 /\ first.ended = "done"
    /\ pc = "aborted"
    /\ \E i \in DOMAIN log : log[i] = "fetch"
    /\ OutputsOf(files) = first.out

====
